---------------------------- MODULE Spec2Model ----------------------------
(***************************************************************************)
(* DNS node discovery (EIP-1459): DnsDiscoveryService of                   *)
(* crates/net/dns/src/lib.rs as a state machine.                           *)
(*                                                                         *)
(* The service is one cooperative task.  A call of poll_next is split at   *)
(* the places where it asks the outside world something: the query pool    *)
(* (does a lookup have an answer?) and the clock.  pc is the position of   *)
(* the call: "idle" (not inside poll_next) or "queries" (inside the while  *)
(* loop over queries.poll).                                                *)
(*                                                                         *)
(* sync.rs (SyncTree) and query.rs (QueryPool) are not among the source    *)
(* files; their operators follow sections 4.3 and 4.4 of the               *)
(* specification.                                                          *)
(***************************************************************************)
EXTENDS Integers, Sequences, FiniteSets, TLC

----------------------------------------------------------------------------
(* Bounds of the model *)

\* root sequence numbers are 1..MaxSeq
MaxSeq == 2
\* the clock runs from 0 to MaxTime
MaxTime == 2
\* recheck_interval, in clock ticks
RecheckInterval == 2
\* capacity of a subscriber channel (mpsc::channel(256) in the source,
\* scaled down so that a channel fills up)
ChannelCapacity == 2
\* number of subscriber channels ever created
MaxSubs == 2
\* number of commands ever sent through the handle
MaxCmds == 1
\* dns_record_cache_limit
CacheLimit == 2
\* max_requests_per_sec: capacity of the token bucket
MaxRequestsPerSec == 2
\* nodes that discv5 and the DNS service may report to Discovery
MaxNodes == 3
\* updates ever produced for Discovery
MaxUpdates == 3

----------------------------------------------------------------------------
(* Data *)

Links == {"A", "B"}
\* the links the handle is asked to sync; tree "B" is reached through the
\* link entry of tree "A"
BootLinks == {"A"}
Hashes == {1, 2, 3, 4}
Kinds == {"Enr", "Link"}
NoLink == "-"
NoKind == "-"

\* TreeRootEntry: the two subtree roots and the sequence number (the
\* signature is checked by the pool before a root is handed over).
\* Publisher "A" moves its ENR subtree from hash 1 to hash 3 with its
\* second root; publisher "B" has one root.
NoRoot == [eroot |-> 0, lroot |-> 0, seq |-> 0]
RootOf(link, seq) ==
    IF link = "A"
    THEN [eroot |-> IF seq = 1 THEN 1 ELSE 3, lroot |-> 2, seq |-> seq]
    ELSE [eroot |-> 3, lroot |-> 4, seq |-> seq]
SeqsOf(link) == IF link = "A" THEN 1 .. MaxSeq ELSE {1}
Roots == {RootOf(l, s) : l \in Links, s \in 1 .. MaxSeq}

\* Enr records: record 1 lacks the endpoint fields a NodeRecord needs
Enrs == {1, 2}

\* DnsEntry, and the two other answers of an entry lookup (None: no TXT
\* record, Err: the text did not parse or the lookup timed out)
Entry(type, link, children, enr) ==
    [type |-> type, link |-> link, children |-> children, enr |-> enr]
NoneEntry == Entry("None", NoLink, <<>>, 0)
ErrEntry == Entry("Err", NoLink, <<>>, 0)
RootEntry == Entry("Root", NoLink, <<>>, 0)
LinkEntryOf(l) == Entry("Link", l, <<>>, 0)
BranchEntry(children) == Entry("Branch", NoLink, children, 0)
NodeEntry(e) == Entry("Node", NoLink, <<>>, e)

\* What the resolver may serve at <hash>.<domain of link>: the branch at
\* hash 1 lists a leaf and a link, so that each subtree meets an entry of
\* the other kind; the two trees link to each other and share leaf hash 3;
\* the link subtree of "B" may hold a leaf where a link belongs
Zone(link, hash) ==
    CASE hash = 1 -> {BranchEntry(<<3, 2>>)}
      [] hash = 2 -> {LinkEntryOf("B")}
      [] hash = 3 -> IF link = "A" THEN {NodeEntry(e) : e \in Enrs}
                                   ELSE {NodeEntry(2), RootEntry}
      [] OTHER -> {LinkEntryOf("A"), NodeEntry(2)}

\* The answers of an entry lookup: unparseable text is served at hash 3 only
EntryAnswers(link, hash) ==
    {NoneEntry} \cup (IF hash = 3 THEN {ErrEntry} ELSE {}) \cup Zone(link, hash)

\* A query of the pool, and its answer once the lookup has completed
RootQuery(link) == [q |-> "root", link |-> link, hash |-> 0, kind |-> NoKind]
EntryQuery(link, hash, kind) == [q |-> "entry", link |-> link, hash |-> hash, kind |-> kind]
NoAnswer == [ok |-> FALSE, root |-> NoRoot, entry |-> NoneEntry]
RootAnswers(link) ==
    {[ok |-> TRUE, root |-> RootOf(link, s), entry |-> NoneEntry] : s \in SeqsOf(link)}
        \cup {NoAnswer}
AnswersOf(query) ==
    IF query.q = "root" THEN RootAnswers(query.link)
    ELSE {[ok |-> TRUE, root |-> NoRoot, entry |-> e] : e \in EntryAnswers(query.link, query.hash)}
----------------------------------------------------------------------------
(* Helpers on sequences and functions *)

EmptyMap == [x \in {} |-> 0]
Put(f, k, v) == [x \in (DOMAIN f) \cup {k} |-> IF x = k THEN v ELSE f[x]]
Min(S) == CHOOSE x \in S : \A y \in S : x <= y
RemoveAt(s, i) == [j \in 1 .. (Len(s) - 1) |-> IF j < i THEN s[j] ELSE s[j + 1]]
Range(s) == {s[i] : i \in DOMAIN s}

RECURSIVE SetToSeq(_)
SetToSeq(S) == IF S = {} THEN <<>> ELSE <<Min(S)>> \o SetToSeq(S \ {Min(S)})

----------------------------------------------------------------------------
(* State *)

VARIABLES
    node_record_listeners,  \* Vec<mpsc::Sender>: [id, buf, closed] per channel
    trees,                  \* HashMap<LinkEntry, SyncTree>
    pool_waiting,           \* QueryPool: queries waiting for a token (FIFO)
    pool_active,            \* QueryPool: the lookups in flight
    tokens,                 \* QueryPool: tokens left in the bucket
    dns_record_cache,       \* LruMap<String, DnsEntry>, most recently used first
    queued_events,          \* VecDeque<DnsDiscoveryEvent>
    command_rx,             \* the command inbox
    pc,                     \* position of the running poll_next call
    ret,                    \* what the last poll_next call returned
    now,                    \* the clock (Instant::now())
    next_sub,               \* channels created so far
    ncmds,                  \* commands sent so far
    last,                   \* the handler that ran in the last step, and its argument
    walked,                 \* per link: the hashes of its ENR subtree reached so far
    started,                \* QueryPool: lookups started in each tick of the last second
    discovery               \* Discovery<DiscV5, S, Enr>: the consumer of the node records

vars == <<node_record_listeners, trees, pool_waiting, pool_active, tokens,
          dns_record_cache, queued_events, command_rx, pc, ret, now, next_sub,
          ncmds, last, walked, started, discovery>>

\* The fields of the service that its handlers change, as one record
Cur == [listeners |-> node_record_listeners,
        trees     |-> trees,
        waiting   |-> pool_waiting,
        cache     |-> dns_record_cache,
        events    |-> queued_events]

Install(st) ==
    /\ node_record_listeners' = st.listeners
    /\ trees' = st.trees
    /\ pool_waiting' = st.waiting
    /\ dns_record_cache' = st.cache
    /\ queued_events' = st.events

----------------------------------------------------------------------------
(* SyncTree: the per-tree state machine (specification, section 4.4) *)

\* SyncTree::new(root, link)
SyncTreeNew(root) ==
    [root            |-> root,
     unresolved_enr  |-> {root.eroot},
     unresolved_link |-> {root.lroot},
     resolved_links  |-> EmptyMap,
     seen            |-> {},
     last_root_fetch |-> now]

\* SyncTree::update_root(new_root)
update_root(tree, new_root) ==
    IF new_root.seq > tree.root.seq
    THEN [root            |-> new_root,
          unresolved_enr  |-> {new_root.eroot},
          unresolved_link |-> {new_root.lroot},
          resolved_links  |-> EmptyMap,
          seen            |-> {},
          last_root_fetch |-> now]
    ELSE IF new_root = tree.root
    THEN [tree EXCEPT !.last_root_fetch = now]
    ELSE tree

\* SyncTree::poll(now, recheck_interval): the tree after the call and the
\* action it returns
NoAction == [act |-> "None", hash |-> 0]
tree_poll(tree, at, interval) ==
    IF at - tree.last_root_fetch >= interval
    THEN [tree   |-> [tree EXCEPT !.last_root_fetch = at],
          action |-> [act |-> "UpdateRoot", hash |-> 0]]
    ELSE IF tree.unresolved_link # {}
    THEN LET h == Min(tree.unresolved_link)
         IN [tree   |-> [tree EXCEPT !.unresolved_link = @ \ {h}, !.seen = @ \cup {h}],
             action |-> [act |-> "Link", hash |-> h]]
    ELSE IF tree.unresolved_enr # {}
    THEN LET h == Min(tree.unresolved_enr)
         IN [tree   |-> [tree EXCEPT !.unresolved_enr = @ \ {h}, !.seen = @ \cup {h}],
             action |-> [act |-> "Enr", hash |-> h]]
    ELSE [tree |-> tree, action |-> NoAction]

\* SyncTree::extend_children(kind, children)
extend_children(tree, kind, children) ==
    LET fresh == {c \in Range(children) :
                    /\ c \notin tree.seen
                    /\ ~(kind = "Link" /\ c \in DOMAIN tree.resolved_links)}
    IN IF kind = "Link"
       THEN [tree EXCEPT !.unresolved_link = @ \cup fresh]
       ELSE [tree EXCEPT !.unresolved_enr = @ \cup fresh]

----------------------------------------------------------------------------
(* QueryPool: enqueueing (specification, section 4.3) *)

\* QueryPool::resolve_root(link)
pool_resolve_root(waiting, link) == Append(waiting, RootQuery(link))

\* QueryPool::resolve_entry(link, hash, kind)
pool_resolve_entry(waiting, link, hash, kind) == Append(waiting, EntryQuery(link, hash, kind))

\* QueryPool::poll, first part: the waiting queries start, in FIFO order,
\* as long as the bucket has tokens
RECURSIVE pool_admit(_, _, _)
pool_admit(waiting, active, bucket) ==
    IF waiting = <<>> \/ bucket = 0
    THEN [waiting |-> waiting, active |-> active, tokens |-> bucket]
    ELSE pool_admit(Tail(waiting), Append(active, Head(waiting)), bucket - 1)

----------------------------------------------------------------------------
(* The parse cache: schnellru::LruMap with a ByLength limiter *)

CacheHas(cache, hash) == \E i \in DOMAIN cache : cache[i].hash = hash
CacheIndex(cache, hash) == CHOOSE i \in DOMAIN cache : cache[i].hash = hash

\* LruMap::get: the entry found becomes the most recently used
CacheGet(cache, hash) ==
    LET i == CacheIndex(cache, hash)
    IN [entry |-> cache[i].entry, cache |-> <<cache[i]>> \o RemoveAt(cache, i)]

\* LruMap::insert: the least recently used entry leaves a full map
CacheInsert(cache, hash, entry) ==
    LET rest == SelectSeq(cache, LAMBDA c : c.hash # hash)
        all == <<[hash |-> hash, entry |-> entry]>> \o rest
    IN SubSeq(all, 1, IF Len(all) < CacheLimit THEN Len(all) ELSE CacheLimit)

----------------------------------------------------------------------------
(* Handlers of DnsDiscoveryService *)

\* Enr -> NodeRecordWithForkId (TryFrom): the node id and the fork id of
\* the "eth" field; fails for an Enr without the endpoint fields
Convertible(enr) == enr # 1
NodeRecordOf(enr) == [id |-> enr, fork_id |-> 100 + enr]

\* mpsc::Sender::try_send
TrySend(listener, record) ==
    IF listener.closed THEN "Closed"
    ELSE IF Len(listener.buf) >= ChannelCapacity THEN "Full"
    ELSE "Ok"

\* notify with a full channel treated like a closed one
notify_drops_full(st, record) ==
    LET sent == [i \in DOMAIN st.listeners |->
                    IF TrySend(st.listeners[i], record) = "Ok"
                    THEN [st.listeners[i] EXCEPT !.buf = Append(@, record)]
                    ELSE [st.listeners[i] EXCEPT !.closed = TRUE]]
    IN [st EXCEPT !.listeners = SelectSeq(sent, LAMBDA l : ~l.closed)]

\* DnsDiscoveryService::notify
notify(st, record) ==
    LET sent == [i \in DOMAIN st.listeners |->
                    IF TrySend(st.listeners[i], record) = "Ok"
                    THEN [st.listeners[i] EXCEPT !.buf = Append(@, record)]
                    ELSE st.listeners[i]]
    IN [st EXCEPT !.listeners = SelectSeq(sent, LAMBDA l : ~l.closed)]

\* on_resolved_enr that buffers the event before it tries the conversion
on_resolved_enr_event_first(st, enr) ==
    IF ~Convertible(enr) THEN [st EXCEPT !.events = Append(@, enr)]
    ELSE [notify(st, NodeRecordOf(enr)) EXCEPT !.events = Append(@, enr)]

\* on_resolved_enr that buffers the event only when every subscriber took
\* the record
on_resolved_enr_if_delivered(st, enr) ==
    IF ~Convertible(enr) THEN st
    ELSE IF \E i \in DOMAIN st.listeners : TrySend(st.listeners[i], NodeRecordOf(enr)) # "Ok"
    THEN notify(st, NodeRecordOf(enr))
    ELSE [notify(st, NodeRecordOf(enr)) EXCEPT !.events = Append(@, enr)]

\* on_resolved_enr that sends the record to the subscribers a second time
on_resolved_enr_notifies_twice(st, enr) ==
    IF ~Convertible(enr) THEN st
    ELSE [notify(notify(st, NodeRecordOf(enr)), NodeRecordOf(enr))
             EXCEPT !.events = Append(@, enr)]

\* Update::on_resolved_enr
on_resolved_enr(st, enr) ==
    IF ~Convertible(enr) THEN st
    ELSE [notify(st, NodeRecordOf(enr)) EXCEPT !.events = Append(@, enr)]

\* DnsDiscoveryService::sync_tree_with_link
sync_tree_with_link(st, link) ==
    [st EXCEPT !.waiting = pool_resolve_root(@, link)]

\* on_resolved_root that inserts a new tree whether or not one exists
on_resolved_root_insert(st, ok, root, link) ==
    IF ok THEN [st EXCEPT !.trees = Put(@, link, SyncTreeNew(root))] ELSE st

\* on_resolved_root that drops the tree of a link whose lookup failed
on_resolved_root_forget(st, ok, root, link) ==
    IF ok
    THEN IF link \in DOMAIN st.trees
         THEN [st EXCEPT !.trees[link] = update_root(@, root)]
         ELSE [st EXCEPT !.trees = Put(@, link, SyncTreeNew(root))]
    ELSE [st EXCEPT !.trees = [l \in (DOMAIN @) \ {link} |-> @[l]]]

\* on_resolved_root that resets the cursors of an existing tree on every
\* resolved root
on_resolved_root_reset(st, ok, root, link) ==
    IF ok
    THEN IF link \in DOMAIN st.trees
         THEN [st EXCEPT !.trees[link] =
                  [update_root(@, root) EXCEPT !.unresolved_enr = {root.eroot},
                                               !.unresolved_link = {root.lroot}]]
         ELSE [st EXCEPT !.trees = Put(@, link, SyncTreeNew(root))]
    ELSE st

\* on_resolved_root that leaves an existing tree alone
on_resolved_root_keep(st, ok, root, link) ==
    IF ok
    THEN IF link \in DOMAIN st.trees
         THEN st
         ELSE [st EXCEPT !.trees = Put(@, link, SyncTreeNew(root))]
    ELSE st

\* on_resolved_root that builds the tree anew when the root it holds is
\* resolved again
on_resolved_root_recreate(st, ok, root, link) ==
    IF ok
    THEN IF link \in DOMAIN st.trees /\ st.trees[link].root # root
         THEN [st EXCEPT !.trees[link] = update_root(@, root)]
         ELSE [st EXCEPT !.trees = Put(@, link, SyncTreeNew(root))]
    ELSE st

\* DnsDiscoveryService::on_resolved_root
on_resolved_root(st, ok, root, link) ==
    IF ok
    THEN IF link \in DOMAIN st.trees
         THEN [st EXCEPT !.trees[link] = update_root(@, root)]
         ELSE [st EXCEPT !.trees = Put(@, link, SyncTreeNew(root))]
    ELSE st

\* on_resolved_entry that follows a link entry whatever kind was asked for
on_resolved_entry_follows_links(st, entry, link, hash, kind) ==
    IF entry.type \in {"None", "Err"} THEN st
    ELSE LET st1 == [st EXCEPT !.cache = CacheInsert(@, hash, entry)]
         IN CASE entry.type = "Root" -> st1
              [] entry.type = "Link" ->
                    sync_tree_with_link(
                        IF link \in DOMAIN st1.trees
                        THEN [st1 EXCEPT !.trees[link].resolved_links = Put(@, hash, entry.link)]
                        ELSE st1,
                        entry.link)
              [] entry.type = "Branch" ->
                    IF link \in DOMAIN st1.trees
                    THEN [st1 EXCEPT !.trees[link] = extend_children(@, kind, entry.children)]
                    ELSE st1
              [] entry.type = "Node" ->
                    IF kind = "Link" THEN st1 ELSE on_resolved_enr(st1, entry.enr)

\* on_resolved_entry that hands a leaf to on_resolved_enr whatever kind was
\* asked for
on_resolved_entry_takes_leaves(st, entry, link, hash, kind) ==
    IF entry.type \in {"None", "Err"} THEN st
    ELSE LET st1 == [st EXCEPT !.cache = CacheInsert(@, hash, entry)]
         IN CASE entry.type = "Root" -> st1
              [] entry.type = "Link" ->
                    IF kind = "Link"
                    THEN sync_tree_with_link(
                            IF link \in DOMAIN st1.trees
                            THEN [st1 EXCEPT !.trees[link].resolved_links = Put(@, hash, entry.link)]
                            ELSE st1,
                            entry.link)
                    ELSE st1
              [] entry.type = "Branch" ->
                    IF link \in DOMAIN st1.trees
                    THEN [st1 EXCEPT !.trees[link] = extend_children(@, kind, entry.children)]
                    ELSE st1
              [] entry.type = "Node" -> on_resolved_enr(st1, entry.enr)

\* on_resolved_entry that records a link entry in the tree and does not
\* look up the root of the linked tree
on_resolved_entry_records_only(st, entry, link, hash, kind) ==
    IF entry.type = "Link" /\ kind = "Link"
    THEN LET st1 == [st EXCEPT !.cache = CacheInsert(@, hash, entry)]
         IN IF link \in DOMAIN st1.trees
            THEN [st1 EXCEPT !.trees[link].resolved_links = Put(@, hash, entry.link)]
            ELSE st1
    ELSE on_resolved_entry_takes_leaves(st, entry, link, hash, kind)

\* on_resolved_entry that puts every child of a branch back into the
\* unresolved set of the tree
on_resolved_entry_readds_children(st, entry, link, hash, kind) ==
    IF entry.type = "Branch" /\ link \in DOMAIN st.trees
    THEN LET st1 == [st EXCEPT !.cache = CacheInsert(@, hash, entry)]
         IN IF kind = "Link"
            THEN [st1 EXCEPT !.trees[link].unresolved_link = @ \cup Range(entry.children)]
            ELSE [st1 EXCEPT !.trees[link].unresolved_enr = @ \cup Range(entry.children)]
    ELSE on_resolved_entry_takes_leaves(st, entry, link, hash, kind)

\* DnsDiscoveryService::on_resolved_entry
on_resolved_entry(st, entry, link, hash, kind) ==
    IF entry.type \in {"None", "Err"} THEN st
    ELSE LET st1 == [st EXCEPT !.cache = CacheInsert(@, hash, entry)]
         IN CASE entry.type = "Root" -> st1
              [] entry.type = "Link" ->
                    IF kind = "Link"
                    THEN sync_tree_with_link(
                            IF link \in DOMAIN st1.trees
                            THEN [st1 EXCEPT !.trees[link].resolved_links = Put(@, hash, entry.link)]
                            ELSE st1,
                            entry.link)
                    ELSE st1
              [] entry.type = "Branch" ->
                    IF link \in DOMAIN st1.trees
                    THEN [st1 EXCEPT !.trees[link] = extend_children(@, kind, entry.children)]
                    ELSE st1
              [] entry.type = "Node" ->
                    IF kind = "Link" THEN st1 ELSE on_resolved_enr(st1, entry.enr)

\* resolve_entry that serves the cached entry and still asks the resolver
resolve_entry_and_query(st, link, hash, kind) ==
    IF CacheHas(st.cache, hash)
    THEN LET got == CacheGet(st.cache, hash)
             st1 == on_resolved_entry([st EXCEPT !.cache = got.cache], got.entry, link, hash, kind)
         IN [st1 EXCEPT !.waiting = pool_resolve_entry(@, link, hash, kind)]
    ELSE [st EXCEPT !.waiting = pool_resolve_entry(@, link, hash, kind)]

\* resolve_entry that only serves the cache
resolve_entry_cached_only(st, link, hash, kind) ==
    IF CacheHas(st.cache, hash)
    THEN LET got == CacheGet(st.cache, hash)
         IN on_resolved_entry([st EXCEPT !.cache = got.cache], got.entry, link, hash, kind)
    ELSE st

\* DnsDiscoveryService::resolve_entry
resolve_entry(st, link, hash, kind) ==
    IF CacheHas(st.cache, hash)
    THEN LET got == CacheGet(st.cache, hash)
         IN on_resolved_entry([st EXCEPT !.cache = got.cache], got.entry, link, hash, kind)
    ELSE [st EXCEPT !.waiting = pool_resolve_entry(@, link, hash, kind)]

\* node_record_stream whose receiver stays alive when the reply could not
\* be sent
node_record_stream_keeps_receiver(st, id, replyOpen) ==
    [st EXCEPT !.listeners = Append(@, [id |-> id, buf |-> <<>>, closed |-> FALSE])]

\* DnsDiscoveryService::node_record_stream: the new channel; its receiver
\* is dropped at once when the reply could not be sent
node_record_stream(st, id, replyOpen) ==
    [st EXCEPT !.listeners = Append(@, [id |-> id, buf |-> <<>>, closed |-> ~replyOpen])]

\* The command loop that ends at a subscription whose reply sink is gone
RECURSIVE DrainCommands_until_dropped(_, _)
DrainCommands_until_dropped(st, cmds) ==
    IF cmds = <<>> THEN st
    ELSE LET c == Head(cmds)
         IN IF c.cmd = "NodeRecordUpdates" /\ ~c.replyOpen THEN st
            ELSE DrainCommands_until_dropped(
                     IF c.cmd = "SyncTree" THEN sync_tree_with_link(st, c.link)
                     ELSE node_record_stream(st, c.id, c.replyOpen),
                     Tail(cmds))

\* poll_next, "process all incoming commands"
RECURSIVE DrainCommands(_, _)
DrainCommands(st, cmds) ==
    IF cmds = <<>> THEN st
    ELSE LET c == Head(cmds)
         IN DrainCommands(
                IF c.cmd = "SyncTree" THEN sync_tree_with_link(st, c.link)
                ELSE node_record_stream(st, c.id, c.replyOpen),
                Tail(cmds))

\* The drain that files a link hash as an ENR resolve and an ENR hash as a
\* link resolve
RECURSIVE DrainTree_kinds_swapped(_, _, _, _)
DrainTree_kinds_swapped(tree, link, resolves, updates) ==
    LET p == tree_poll(tree, now, RecheckInterval)
    IN CASE p.action.act = "None" ->
                [tree |-> tree, resolves |-> resolves, updates |-> updates]
         [] p.action.act = "UpdateRoot" ->
                DrainTree_kinds_swapped(p.tree, link, resolves, Append(updates, link))
         [] OTHER ->
                DrainTree_kinds_swapped(p.tree, link,
                          Append(resolves, [link |-> link, hash |-> p.action.hash,
                                            kind |-> IF p.action.act = "Link" THEN "Enr"
                                                     ELSE "Link"]),
                          updates)

\* The drain that files a root update with every action of the tree
RECURSIVE DrainTree_updates_always(_, _, _, _)
DrainTree_updates_always(tree, link, resolves, updates) ==
    LET p == tree_poll(tree, now, RecheckInterval)
    IN CASE p.action.act = "None" ->
                [tree |-> tree, resolves |-> resolves, updates |-> updates]
         [] p.action.act = "UpdateRoot" ->
                DrainTree_updates_always(p.tree, link, resolves, Append(updates, link))
         [] OTHER ->
                DrainTree_updates_always(p.tree, link,
                          Append(resolves, [link |-> link, hash |-> p.action.hash,
                                            kind |-> p.action.act]),
                          Append(updates, link))

\* poll_next, "while let Some(action) = tree.poll(now, recheck_interval)"
RECURSIVE DrainTree(_, _, _, _)
DrainTree(tree, link, resolves, updates) ==
    CHOOSE drained \in
        {CASE p.action.act = "None" ->
                [tree |-> t, resolves |-> rs, updates |-> us]
           [] p.action.act = "UpdateRoot" ->
                DrainTree(p.tree, link, rs, Append(us, link))
           [] OTHER ->
                DrainTree(p.tree, link,
                          Append(rs, [link |-> link, hash |-> p.action.hash,
                                      kind |-> p.action.act]),
                          us) :
         t \in {tree}, rs \in {resolves}, us \in {updates},
         p \in {tree_poll(tree, now, RecheckInterval)}} : TRUE

\* poll_next, "for tree in self.trees.values_mut()", in the order `order`
RECURSIVE PollTrees(_, _, _, _)
PollTrees(ts, order, resolves, updates) ==
    IF order = <<>> THEN [trees |-> ts, resolves |-> resolves, updates |-> updates]
    ELSE CHOOSE polled \in
            {PollTrees([ts EXCEPT ![Head(order)] = d.tree], Tail(order), d.resolves, d.updates) :
             d \in {DrainTree(ts[Head(order)], Head(order), resolves, updates)}} : TRUE

\* poll_next, "for (domain, hash, kind) in pending_resolves"
RECURSIVE SubmitResolves(_, _)
SubmitResolves(st, resolves) ==
    IF resolves = <<>> THEN st
    ELSE CHOOSE done \in {SubmitResolves(resolve_entry(s, r.link, r.hash, r.kind), rest) :
                              s \in {st}, r \in {Head(resolves)}, rest \in {Tail(resolves)}} :
            TRUE

\* The root updates of an iteration left for a later one
SubmitUpdates_deferred(st, updates) == st

\* poll_next, "for link in pending_updates"
RECURSIVE SubmitUpdates(_, _)
SubmitUpdates(st, updates) ==
    IF updates = <<>> THEN st
    ELSE SubmitUpdates(sync_tree_with_link(st, Head(updates)), Tail(updates))

\* The orders in which a HashMap may hand out its values
Orders(S) == {o \in [1 .. Cardinality(S) -> S] : Range(o) = S}

----------------------------------------------------------------------------
(* Discovery<DiscV5, S, Enr<SecretKey>> of
   crates/net/network/src/discovery/discv5.rs: the stream that consumes the
   node records of the DNS service and the events of discv5.  A node is
   its id; node 1 has no contactable address. *)

Nodes == 1 .. MaxNodes

NoDiscovery ==
    [queued_events         |-> <<>>,    \* VecDeque<DiscoveryEvent>
     discovered_nodes      |-> {},      \* HashMap<PeerId, SocketAddr>: its keys
     disc_updates          |-> <<>>,    \* the discv5 events not yet read
     dns_discovery_updates |-> <<>>,    \* the DNS node records not yet read
     notified              |-> <<>>,    \* what the listeners were told
     returned              |-> <<>>,    \* the events poll_next has returned
     ret                   |-> "none",  \* what the last poll_next returned
     woken                 |-> TRUE,    \* the task is scheduled to be polled
     disc_waker            |-> FALSE,   \* the discv5 stream holds the waker
     dns_waker             |-> FALSE,   \* the DNS stream holds the waker
     sent                  |-> 0]       \* updates produced so far

\* Discovery::on_node_record_update: a node not seen before is remembered
\* and announced
on_node_record_update(d, id) ==
    IF id \in d.discovered_nodes THEN d
    ELSE [d EXCEPT !.discovered_nodes = @ \cup {id},
                   !.queued_events = Append(@, id)]

\* Discovery::try_insert_enr_into_discovered_nodes
try_insert_enr_into_discovered_nodes(d, id) ==
    IF ~Convertible(id) THEN d ELSE on_node_record_update(d, id)

\* Discovery::on_discv5_update, for the events that carry a node
\* (Discovered, SessionEstablished)
on_discv5_update(d, id) == try_insert_enr_into_discovered_nodes(d, id)

\* poll_next, "while let Some(Poll::Ready(Some(update))) = self.disc_updates"
RECURSIVE DrainDiscUpdates(_, _)
DrainDiscUpdates(d, updates) ==
    IF updates = <<>> THEN d
    ELSE DrainDiscUpdates(on_discv5_update(d, Head(updates)), Tail(updates))

\* poll_next, "while let Some(Poll::Ready(Some(update))) =
\* self.dns_discovery_updates": add_disc_node touches discv5 only
RECURSIVE DrainDnsUpdates(_, _)
DrainDnsUpdates(d, updates) ==
    IF updates = <<>> THEN d
    ELSE DrainDnsUpdates(IF Convertible(Head(updates))
                         THEN on_node_record_update(d, Head(updates))
                         ELSE d,
                         Tail(updates))

\* Discovery::notify_listeners
notify_listeners(d, event) == [d EXCEPT !.notified = Append(@, event)]

\* Stream::poll_next of Discovery<DiscV5, S, Enr<SecretKey>>.  After
\* Ready the caller polls again; before Pending both update streams were
\* polled to Pending and hold the waker; wake_by_ref is called when
\* queued_events is empty
discv5_poll_next(d) ==
    IF d.queued_events # <<>>
    THEN [notify_listeners(d, Head(d.queued_events))
             EXCEPT !.queued_events = Tail(@),
                    !.returned = Append(@, Head(d.queued_events)),
                    !.ret = "Ready",
                    !.woken = TRUE]
    ELSE LET d1 == DrainDiscUpdates(d, d.disc_updates)
             d2 == DrainDnsUpdates(d1, d.dns_discovery_updates)
         IN [d2 EXCEPT !.disc_updates = <<>>,
                       !.dns_discovery_updates = <<>>,
                       !.disc_waker = TRUE,
                       !.dns_waker = TRUE,
                       !.woken = (d2.queued_events = <<>>),
                       !.ret = "Pending"]

----------------------------------------------------------------------------
(* Initial state: DnsDiscoveryService::new *)

\* The ENR subtree of a link as far as it has been resolved: the eroot of
\* every root resolved for the link, and the children of every branch
\* entry that was handled under kind Enr for a hash already reached
NoWalk == [l \in Links |-> {}]
WalkEntry(w, entry, link, hash, kind) ==
    IF entry.type = "Branch" /\ kind = "Enr" /\ hash \in w[link]
    THEN [w EXCEPT ![link] = @ \cup Range(entry.children)]
    ELSE w
WalkOutcome(w, query, answer) ==
    IF query.q = "root"
    THEN IF answer.ok THEN [w EXCEPT ![query.link] = @ \cup {answer.root.eroot}] ELSE w
    ELSE WalkEntry(w, answer.entry, query.link, query.hash, query.kind)
\* the resolves of one iteration that are served by the cache
RECURSIVE WalkResolves(_, _, _)
WalkResolves(w, cache, resolves) ==
    IF resolves = <<>> THEN w
    ELSE LET r == Head(resolves)
         IN WalkResolves(
                IF CacheHas(cache, r.hash)
                THEN WalkEntry(w, cache[CacheIndex(cache, r.hash)].entry, r.link, r.hash, r.kind)
                ELSE w,
                cache, Tail(resolves))

\* last: "root" and "entry" name the handler an outcome of the pool was
\* dispatched to, with the outcome; "iter" is the rest of a loop iteration,
\* with its pending_resolves and pending_updates; pre is the service as the
\* step found it
NoService == [listeners |-> <<>>, trees |-> EmptyMap, waiting |-> <<>>, cache |-> <<>>,
              events |-> <<>>]
NoLast == [op |-> "none", link |-> NoLink, hash |-> 0, kind |-> NoKind, ok |-> FALSE,
           root |-> NoRoot, entry |-> NoneEntry, resolves |-> <<>>, updates |-> <<>>,
           pre |-> NoService]
NoRet == [kind |-> "none", event |-> 0]

Init ==
    /\ node_record_listeners = <<>>
    /\ trees = EmptyMap
    /\ pool_waiting = <<>>
    /\ pool_active = <<>>
    /\ tokens = MaxRequestsPerSec
    /\ dns_record_cache = <<>>
    /\ queued_events = <<>>
    /\ command_rx = <<>>
    /\ pc = "idle"
    /\ ret = NoRet
    /\ now = 0
    /\ next_sub = 0
    /\ ncmds = 0
    /\ last = NoLast
    /\ walked = NoWalk
    /\ started = <<>>
    /\ discovery = NoDiscovery

serviceVars == <<node_record_listeners, trees, pool_waiting, dns_record_cache, queued_events>>
serviceVarsButWaiting == <<node_record_listeners, trees, dns_record_cache, queued_events>>

----------------------------------------------------------------------------
(* The outside world, between two calls of poll_next *)

\* DnsDiscoveryHandle::sync_tree_with_link
SendSyncTree(link) ==
    /\ pc = "idle"
    /\ ncmds < MaxCmds
    /\ command_rx' = Append(command_rx, [cmd |-> "SyncTree", link |-> link, id |-> 0,
                                         replyOpen |-> FALSE])
    /\ ncmds' = ncmds + 1
    /\ last' = NoLast
    /\ UNCHANGED <<serviceVars, pc, ret, pool_active, tokens, now, next_sub, walked, started, discovery>>

\* DnsDiscoveryHandle::node_record_stream; replyOpen is FALSE when the
\* caller drops the oneshot receiver before the service replies
SendNodeRecordUpdates(replyOpen) ==
    /\ pc = "idle"
    /\ next_sub < MaxSubs
    /\ command_rx' = Append(command_rx, [cmd |-> "NodeRecordUpdates", link |-> NoLink,
                                         id |-> next_sub + 1, replyOpen |-> replyOpen])
    /\ next_sub' = next_sub + 1
    /\ last' = NoLast
    /\ UNCHANGED <<serviceVars, pc, ret, pool_active, tokens, now, ncmds, walked, started, discovery>>

\* A subscriber takes the oldest record out of its channel
Recv(i) ==
    /\ pc = "idle"
    /\ i \in DOMAIN node_record_listeners
    /\ ~node_record_listeners[i].closed
    /\ node_record_listeners[i].buf # <<>>
    /\ node_record_listeners' = [node_record_listeners EXCEPT ![i].buf = Tail(@)]
    /\ last' = NoLast
    /\ UNCHANGED <<trees, pool_waiting, dns_record_cache, queued_events, pc, ret,
                   pool_active, tokens, command_rx, now, next_sub, ncmds, walked, started, discovery>>

\* A subscriber drops its receiver
DropReceiver(i) ==
    /\ pc = "idle"
    /\ i \in DOMAIN node_record_listeners
    /\ ~node_record_listeners[i].closed
    /\ node_record_listeners' = [node_record_listeners EXCEPT ![i].closed = TRUE, ![i].buf = <<>>]
    /\ last' = NoLast
    /\ UNCHANGED <<trees, pool_waiting, dns_record_cache, queued_events, pc, ret,
                   pool_active, tokens, command_rx, now, next_sub, ncmds, walked, started, discovery>>

\* The service is parked: its last poll returned Pending and neither a
\* command nor a lookup is outstanding
Parked ==
    /\ pc = "idle"
    /\ ret.kind = "Pending"
    /\ command_rx = <<>>
    /\ pool_waiting = <<>>
    /\ pool_active = <<>>

\* A waker of the task is registered somewhere and will fire: poll_next
\* hands its context to the command inbox and to the query pool (lookups in
\* flight, the refill timer of the bucket when a query waits for a token),
\* and to nothing else; SyncTree::poll gets the time, not the context
WakeScheduled ==
    \/ command_rx # <<>>
    \/ pool_active # <<>>
    \/ pool_waiting # <<>>

\* Time passes.  recheck_interval (minutes) is long against a lookup and
\* its timeout (seconds): the clock of the model advances while the
\* service is parked
Tick ==
    /\ Parked
    /\ now < MaxTime
    /\ now' = now + 1
    /\ last' = NoLast
    /\ UNCHANGED <<serviceVars, pc, ret, pool_active, tokens, command_rx, next_sub, ncmds, walked, started, discovery>>

\* The token bucket is refilled (observed when a query waits for a token)
Refill ==
    /\ pc = "idle"
    /\ tokens = 0
    /\ pool_waiting # <<>>
    /\ tokens' = MaxRequestsPerSec
    /\ last' = NoLast
    /\ UNCHANGED <<serviceVars, pc, ret, pool_active, command_rx, now, next_sub, ncmds, walked, started, discovery>>

----------------------------------------------------------------------------
(* Stream::poll_next of DnsDiscoveryService *)

\* The top of the loop that handles the commands before it returns a
\* buffered event
LoopTop_commands_first(st) ==
    IF st.events # <<>>
    THEN /\ Install(DrainCommands([st EXCEPT !.events = Tail(@)], command_rx))
         /\ ret' = [kind |-> "Ready", event |-> Head(st.events)]
         /\ pc' = "idle"
         /\ command_rx' = <<>>
    ELSE /\ Install(DrainCommands(st, command_rx))
         /\ command_rx' = <<>>
         /\ pc' = "queries"
         /\ UNCHANGED ret

\* The top of the loop: a buffered event is returned, otherwise the
\* command inbox is drained and the loop goes on to the query pool
LoopTop(st) ==
    IF st.events # <<>>
    THEN /\ Install([st EXCEPT !.events = Tail(@)])
         /\ ret' = [kind |-> "Ready", event |-> Head(st.events)]
         /\ pc' = "idle"
         /\ UNCHANGED command_rx
    ELSE /\ Install(DrainCommands(st, command_rx))
         /\ command_rx' = <<>>
         /\ pc' = "queries"
         /\ UNCHANGED ret

\* poll_next is called
PollBegin ==
    /\ pc = "idle"
    /\ LoopTop(Cur)
    /\ last' = NoLast
    /\ UNCHANGED <<pool_active, tokens, now, next_sub, ncmds, walked, started, discovery>>

\* The handler an outcome of the pool is dispatched to
Dispatch(st, query, answer) ==
    IF query.q = "root"
    THEN on_resolved_root(st, answer.ok, answer.root, query.link)
    ELSE on_resolved_entry(st, answer.entry, query.link, query.hash, query.kind)

\* queries.poll starts the waiting queries the bucket has tokens for
Admitted == pool_admit(pool_waiting, pool_active, tokens)

\* PoolYield whose lookup stays in the pool after its outcome was handled
PoolYieldKeepsSlot(i, answer) ==
    /\ pc = "queries"
    /\ \E p \in {Admitted} :
          /\ i \in DOMAIN p.active
          /\ \E st \in {Dispatch([Cur EXCEPT !.waiting = p.waiting], p.active[i], answer)} :
                Install(st)
          /\ pool_active' = p.active
          /\ walked' = WalkOutcome(walked, p.active[i], answer)
          /\ tokens' = p.tokens
          /\ last' = [NoLast EXCEPT !.op = p.active[i].q, !.link = p.active[i].link,
                                    !.hash = p.active[i].hash, !.kind = p.active[i].kind,
                                    !.ok = answer.ok, !.root = answer.root,
                                    !.entry = answer.entry,
                                    !.pre = [Cur EXCEPT !.waiting = p.waiting]]
    /\ UNCHANGED <<pc, ret, command_rx, now, next_sub, ncmds, started, discovery>>

\* queries.poll returns Ready(outcome): a lookup in flight has its answer
\* (or its deadline has passed) when the pool polls it, and the outcome is
\* handled
PoolYield(i, answer) ==
    /\ pc = "queries"
    /\ \E p \in {Admitted} :
          /\ i \in DOMAIN p.active
          /\ \E st \in {Dispatch([Cur EXCEPT !.waiting = p.waiting], p.active[i], answer)} :
                Install(st)
          /\ pool_active' = RemoveAt(p.active, i)
          /\ walked' = WalkOutcome(walked, p.active[i], answer)
          /\ tokens' = p.tokens
          /\ last' = [NoLast EXCEPT !.op = p.active[i].q, !.link = p.active[i].link,
                                    !.hash = p.active[i].hash, !.kind = p.active[i].kind,
                                    !.ok = answer.ok, !.root = answer.root,
                                    !.entry = answer.entry,
                                    !.pre = [Cur EXCEPT !.waiting = p.waiting]]
    /\ UNCHANGED <<pc, ret, command_rx, now, next_sub, ncmds, started, discovery>>

\* The rest of the loop body that suspends whenever no event is buffered,
\* whether or not a tree made progress
PoolPending_suspends_on_progress ==
    /\ pc = "queries"
    /\ \E order \in Orders(DOMAIN trees), p \in {Admitted} :
       \E t \in {PollTrees(trees, order, <<>>, <<>>)} :
       \E st \in {SubmitUpdates(
                      SubmitResolves([Cur EXCEPT !.waiting = p.waiting, !.trees = t.trees],
                                     t.resolves),
                      t.updates)} :
          /\ pool_active' = p.active
          /\ walked' = WalkResolves(walked, dns_record_cache, t.resolves)
          /\ tokens' = p.tokens
          /\ last' = [NoLast EXCEPT !.op = "iter", !.resolves = t.resolves,
                                    !.updates = t.updates,
                                    !.pre = [Cur EXCEPT !.waiting = p.waiting]]
          /\ IF st.events = <<>>
             THEN /\ Install(st)
                  /\ ret' = [kind |-> "Pending", event |-> 0]
                  /\ pc' = "idle"
                  /\ UNCHANGED command_rx
             ELSE LoopTop(st)
    /\ UNCHANGED <<now, next_sub, ncmds, started, discovery>>

\* queries.poll returns Pending (no lookup in flight has an answer yet):
\* the rest of the loop body.  Every tree is polled at Instant::now(), the
\* resolves and then the root updates are submitted; without progress and
\* without events poll_next returns Pending, otherwise the loop goes on
PoolPending ==
    /\ pc = "queries"
    /\ \E order \in Orders(DOMAIN trees), p \in {Admitted} :
       \E t \in {PollTrees(trees, order, <<>>, <<>>)} :
       \E st \in {SubmitUpdates(
                      SubmitResolves([Cur EXCEPT !.waiting = p.waiting, !.trees = t.trees],
                                     t.resolves),
                      t.updates)} :
          LET progress == t.resolves # <<>> \/ t.updates # <<>>
          IN /\ pool_active' = p.active
             /\ walked' = WalkResolves(walked, dns_record_cache, t.resolves)
             /\ tokens' = p.tokens
             /\ last' = [NoLast EXCEPT !.op = "iter", !.resolves = t.resolves,
                                       !.updates = t.updates,
                                       !.pre = [Cur EXCEPT !.waiting = p.waiting]]
             /\ IF ~progress /\ st.events = <<>>
                THEN /\ Install(st)
                     /\ ret' = [kind |-> "Pending", event |-> 0]
                     /\ pc' = "idle"
                     /\ UNCHANGED command_rx
                ELSE LoopTop(st)
    /\ UNCHANGED <<now, next_sub, ncmds, started, discovery>>

----------------------------------------------------------------------------

\* The service with its handle, the query pool and the clock; nobody
\* subscribes to the node records
Next ==
    \/ \E l \in BootLinks : SendSyncTree(l)
    \/ Tick
    \/ Refill
    \/ PollBegin
    \/ \E i \in DOMAIN Admitted.active : \E a \in AnswersOf(Admitted.active[i]) : PoolYield(i, a)
    \/ PoolPending

Spec == Init /\ [][Next]_vars

\* A lookup in flight has an outcome for the pool
Yield == \E i \in DOMAIN Admitted.active : \E a \in AnswersOf(Admitted.active[i]) : PoolYield(i, a)

\* The service of Spec as a spawned task: it is polled again after an
\* event and when a waker fires, every lookup in flight ends with its
\* answer or at its deadline (lookup_timeout), the bucket is refilled
FairSpec ==
    /\ Init /\ [][Next]_vars
    /\ WF_vars(PollBegin) /\ WF_vars(PoolPending)
    /\ SF_vars(Yield) /\ SF_vars(Refill)

\* The service with subscribers to the node records; the clock stands still
FanoutNext ==
    \/ \E l \in BootLinks : SendSyncTree(l)
    \/ \E b \in BOOLEAN : SendNodeRecordUpdates(b)
    \/ \E i \in 1 .. MaxSubs : Recv(i)
    \/ \E i \in 1 .. MaxSubs : DropReceiver(i)
    \/ Refill
    \/ PollBegin
    \/ \E i \in DOMAIN Admitted.active : \E a \in AnswersOf(Admitted.active[i]) : PoolYield(i, a)
    \/ PoolPending

FanoutSpec == Init /\ [][FanoutNext]_vars

----------------------------------------------------------------------------
(* The slow subscriber: one subscriber that never reads, and a zone with a
   valid root over more convertible leaves than a channel holds *)

SlowLeaves == 2 .. (ChannelCapacity + 2)
LeafHash(enr) == 10 + enr
SlowZone(hash) ==
    IF hash = RootOf("A", 1).eroot
    THEN BranchEntry([i \in 1 .. (ChannelCapacity + 1) |-> LeafHash(i + 1)])
    ELSE IF \E e \in SlowLeaves : hash = LeafHash(e)
    THEN NodeEntry(hash - 10)
    ELSE NoneEntry
SlowAnswers(query) ==
    IF query.q = "root"
    THEN {[NoAnswer EXCEPT !.ok = TRUE, !.root = RootOf(query.link, 1)]}
    ELSE {[NoAnswer EXCEPT !.ok = TRUE, !.entry = SlowZone(query.hash)]}

\* One call of node_record_stream and one of sync_tree_with_link have been
\* made on the handle of the new service
SlowInit ==
    /\ node_record_listeners = <<>>
    /\ trees = EmptyMap
    /\ pool_waiting = <<>>
    /\ pool_active = <<>>
    /\ tokens = MaxRequestsPerSec
    /\ dns_record_cache = <<>>
    /\ queued_events = <<>>
    /\ command_rx = <<[cmd |-> "NodeRecordUpdates", link |-> NoLink, id |-> 1,
                       replyOpen |-> TRUE],
                      [cmd |-> "SyncTree", link |-> "A", id |-> 0, replyOpen |-> FALSE]>>
    /\ pc = "idle"
    /\ ret = NoRet
    /\ now = 0
    /\ next_sub = 1
    /\ ncmds = 1
    /\ last = NoLast
    /\ walked = NoWalk
    /\ started = <<>>
    /\ discovery = NoDiscovery

SlowYield == \E i \in DOMAIN Admitted.active : \E a \in SlowAnswers(Admitted.active[i]) : PoolYield(i, a)

SlowNext ==
    \/ Refill
    \/ PollBegin
    \/ SlowYield
    \/ PoolPending

\* The task of the service is polled again when it returned an event and
\* when a waker fires; a lookup in flight ends (its answer or its
\* deadline), the bucket is refilled every second
SlowSpec ==
    /\ SlowInit /\ [][SlowNext]_vars
    /\ WF_vars(PollBegin) /\ WF_vars(PoolPending)
    /\ SF_vars(SlowYield) /\ SF_vars(Refill)

----------------------------------------------------------------------------
(* Two SyncTree commands for the same link *)

\* sync_tree_with_link has been called twice on the handle, for the same
\* link, before the first poll; a subscriber may register
TwiceInit ==
    /\ node_record_listeners = <<>>
    /\ trees = EmptyMap
    /\ pool_waiting = <<>>
    /\ pool_active = <<>>
    /\ tokens = MaxRequestsPerSec
    /\ dns_record_cache = <<>>
    /\ queued_events = <<>>
    /\ command_rx = <<[cmd |-> "SyncTree", link |-> "A", id |-> 0, replyOpen |-> FALSE],
                      [cmd |-> "SyncTree", link |-> "A", id |-> 0, replyOpen |-> FALSE]>>
    /\ pc = "idle"
    /\ ret = NoRet
    /\ now = 0
    /\ next_sub = MaxSubs - 1
    /\ ncmds = MaxCmds
    /\ last = NoLast
    /\ walked = NoWalk
    /\ started = <<>>
    /\ discovery = NoDiscovery

TwiceNext ==
    \/ SendNodeRecordUpdates(TRUE)
    \/ Refill
    \/ PollBegin
    \/ \E i \in DOMAIN Admitted.active : \E a \in AnswersOf(Admitted.active[i]) : PoolYield(i, a)
    \/ PoolPending

TwiceSpec == TwiceInit /\ [][TwiceNext]_vars

----------------------------------------------------------------------------
(* QueryPool alone: the token bucket (specification, sections 3 and 4.3).
   The bucket holds at most max_requests_per_sec tokens and is refilled
   continuously, one token every 1/max_requests_per_sec of a second; this
   is the clock tick here.  A lookup takes a token when it starts. *)

\* max_requests_per_sec of this pool
BurstRate == MaxRequestsPerSec + 1

BucketInit ==
    /\ node_record_listeners = <<>>
    /\ trees = EmptyMap
    /\ pool_waiting = <<>>
    /\ pool_active = <<>>
    /\ tokens = BurstRate
    /\ dns_record_cache = <<>>
    /\ queued_events = <<>>
    /\ command_rx = <<>>
    /\ pc = "idle"
    /\ ret = NoRet
    /\ now = 0
    /\ next_sub = 0
    /\ ncmds = 0
    /\ last = NoLast
    /\ walked = NoWalk
    /\ started = [i \in 1 .. BurstRate |-> 0]
    /\ discovery = NoDiscovery

bucketFrame == <<serviceVarsButWaiting, command_rx, pc, ret, now, next_sub, ncmds, last,
                walked, discovery>>

\* QueryPool::resolve_root / QueryPool::resolve_entry
BucketEnqueue(query) ==
    /\ Len(pool_waiting) + Len(pool_active) < 2 * BurstRate
    /\ pool_waiting' = Append(pool_waiting, query)
    /\ UNCHANGED <<pool_active, tokens, started, bucketFrame>>

\* QueryPool::poll: the waiting queries the bucket has tokens for start
BucketPoll ==
    /\ Admitted.active # pool_active
    /\ pool_waiting' = Admitted.waiting
    /\ pool_active' = Admitted.active
    /\ tokens' = Admitted.tokens
    /\ started' = [started EXCEPT ![Len(started)] = @ + Len(Admitted.active) - Len(pool_active)]
    /\ UNCHANGED bucketFrame

\* A lookup in flight ends and frees its slot
BucketFinish(i) ==
    /\ i \in DOMAIN pool_active
    /\ pool_active' = RemoveAt(pool_active, i)
    /\ UNCHANGED <<pool_waiting, tokens, started, bucketFrame>>

\* 1/max_requests_per_sec of a second passes: one token is added to a
\* bucket that is not full, and the one-second window moves on
BucketTick ==
    /\ tokens' = IF tokens < BurstRate THEN tokens + 1 ELSE tokens
    /\ started' = Append(Tail(started), 0)
    /\ UNCHANGED <<pool_waiting, pool_active, bucketFrame>>

BucketNext ==
    \/ \E q \in {RootQuery("A"), EntryQuery("A", 1, "Enr")} : BucketEnqueue(q)
    \/ BucketPoll
    \/ \E i \in 1 .. (2 * BurstRate) : BucketFinish(i)
    \/ BucketTick

BucketSpec == BucketInit /\ [][BucketNext]_vars

----------------------------------------------------------------------------
(* Published records with cycles: branches that list themselves and each
   other, and two trees that link to each other *)

\* The ENR branch of a tree lists itself, the other branch and a leaf (the
\* one at hash 1 also the hash of the link entry); the link branch of a
\* tree lists itself and the link to the other tree
CycleZone(link, hash) ==
    CASE hash = 1 -> BranchEntry(<<1, 3, 11, 12>>)
      [] hash = 3 -> BranchEntry(<<3, 1, 11>>)
      [] hash = 2 -> BranchEntry(<<2, 12>>)
      [] hash = 4 -> BranchEntry(<<4, 12>>)
      [] hash = 11 -> NodeEntry(2)
      [] hash = 12 -> LinkEntryOf(IF link = "A" THEN "B" ELSE "A")
      [] OTHER -> NoneEntry
\* A lookup finds what is published or fails
CycleAnswers(query) ==
    IF query.q = "root"
    THEN {[NoAnswer EXCEPT !.ok = TRUE, !.root = RootOf(query.link, 1)], NoAnswer}
    ELSE {[NoAnswer EXCEPT !.ok = TRUE, !.entry = CycleZone(query.link, query.hash)],
          [NoAnswer EXCEPT !.ok = TRUE, !.entry = NoneEntry]}

CycleYield == \E i \in DOMAIN Admitted.active : \E a \in CycleAnswers(Admitted.active[i]) : PoolYield(i, a)

CycleNext ==
    \/ \E l \in BootLinks : SendSyncTree(l)
    \/ Refill
    \/ PollBegin
    \/ CycleYield
    \/ PoolPending

\* The service as a spawned task over the records with cycles, within one
\* epoch (the clock stands still)
CycleSpec ==
    /\ Init /\ [][CycleNext]_vars
    /\ WF_vars(PollBegin) /\ WF_vars(PoolPending)
    /\ SF_vars(CycleYield) /\ SF_vars(Refill)

----------------------------------------------------------------------------
(* Trees that link to each other *)

\* The link root of the boot tree is the link to "B"; the link root of "B"
\* is a branch over that same entry and the link back to the boot tree;
\* each ENR root is a leaf
LinkZone(hash) ==
    CASE hash = 2 -> LinkEntryOf("B")
      [] hash = 4 -> BranchEntry(<<2, 5>>)
      [] hash = 5 -> LinkEntryOf("A")
      [] OTHER -> NodeEntry(2)
\* A root lookup finds the valid published root; an entry lookup finds the
\* published entry or nothing
LinkAnswers(query) ==
    IF query.q = "root"
    THEN {[NoAnswer EXCEPT !.ok = TRUE, !.root = RootOf(query.link, 1)]}
    ELSE {[NoAnswer EXCEPT !.ok = TRUE, !.entry = LinkZone(query.hash)],
          [NoAnswer EXCEPT !.ok = TRUE, !.entry = NoneEntry]}

LinkYield == \E i \in DOMAIN Admitted.active : \E a \in LinkAnswers(Admitted.active[i]) : PoolYield(i, a)

LinkNext ==
    \/ \E l \in BootLinks : SendSyncTree(l)
    \/ Refill
    \/ PollBegin
    \/ LinkYield
    \/ PoolPending

\* The service as a spawned task over the two trees, within one epoch
LinkSpec ==
    /\ Init /\ [][LinkNext]_vars
    /\ WF_vars(PollBegin) /\ WF_vars(PoolPending)
    /\ SF_vars(LinkYield) /\ SF_vars(Refill)

----------------------------------------------------------------------------
(* Subscribers that read: the zone of the slow subscriber, with leaves that
   convert to different records, a subscriber that registers before the
   walk and one that may register at any time; both may read *)

StreamNext ==
    \/ SendNodeRecordUpdates(TRUE)
    \/ \E i \in 1 .. MaxSubs : Recv(i)
    \/ Refill
    \/ PollBegin
    \/ SlowYield
    \/ PoolPending

StreamSpec == SlowInit /\ [][StreamNext]_vars

----------------------------------------------------------------------------
(* The Discovery stream as a task: discv5 and the DNS service produce
   updates, the executor polls the task when it was woken *)

dnsFrame == <<node_record_listeners, trees, pool_waiting, pool_active, tokens,
              dns_record_cache, queued_events, command_rx, pc, ret, now, next_sub,
              ncmds, last, walked, started>>

\* discv5 reports a node; the stream wakes the task if it holds the waker
DiscUpdate(id) ==
    /\ discovery.sent < MaxUpdates
    /\ discovery' = [discovery EXCEPT !.disc_updates = Append(@, id),
                                      !.sent = @ + 1,
                                      !.woken = @ \/ discovery.disc_waker,
                                      !.disc_waker = FALSE]
    /\ UNCHANGED dnsFrame

\* The DNS service delivers a node record (see notify)
DnsUpdate(id) ==
    /\ discovery.sent < MaxUpdates
    /\ discovery' = [discovery EXCEPT !.dns_discovery_updates = Append(@, id),
                                      !.sent = @ + 1,
                                      !.woken = @ \/ discovery.dns_waker,
                                      !.dns_waker = FALSE]
    /\ UNCHANGED dnsFrame

\* The executor polls the task
DiscPoll ==
    /\ discovery.woken
    /\ discovery' = discv5_poll_next([discovery EXCEPT !.woken = FALSE])
    /\ UNCHANGED dnsFrame

DiscNext ==
    \/ \E id \in Nodes : DiscUpdate(id)
    \/ \E id \in Nodes : DnsUpdate(id)
    \/ DiscPoll

DiscSpec == Init /\ [][DiscNext]_vars /\ WF_vars(DiscPoll)

----------------------------------------------------------------------------
(* Properties *)

IdsOf(ls) == [i \in DOMAIN ls |-> ls[i].id]
OpenOf(ls) == SelectSeq(ls, LAMBDA l : ~l.closed)

\* The last step handled an ENR leaf that was asked for as an ENR
LastIsLeaf == last.op = "entry" /\ last.entry.type = "Node" /\ last.kind = "Enr"
\* The last step handled a resolved root for a link that has a tree
LastIsRefresh == last.op = "root" /\ last.ok /\ last.link \in DOMAIN last.pre.trees

\* The last step was the rest of a loop iteration (trees polled, resolves
\* and root updates submitted)
LastIsIter == last.op = "iter"
\* The queries the last step appended to the waiting list of the pool
Appended == SubSeq(pool_waiting, Len(last.pre.waiting) + 1, Len(pool_waiting))
\* The event poll_next returned in the last step, if it returned one
Yielded == IF pc = "idle" /\ ret.kind = "Ready" THEN <<ret.event>> ELSE <<>>
\* The entry the cache holds for a hash
CachedEntry(cache, hash) == cache[CHOOSE i \in DOMAIN cache : cache[i].hash = hash].entry
CachedHashes(cache) == {cache[i].hash : i \in DOMAIN cache}
\* The resolves of the iteration that found their hash in the cache, those
\* that did not, and the convertible leaves among the former
Hits(cache, resolves) == SelectSeq(resolves, LAMBDA r : r.hash \in CachedHashes(cache))
Misses(cache, resolves) == SelectSeq(resolves, LAMBDA r : r.hash \notin CachedHashes(cache))
HitLeaves(cache, resolves) ==
    SelectSeq(Hits(cache, resolves),
              LAMBDA r : /\ r.kind = "Enr"
                         /\ CachedEntry(cache, r.hash).type = "Node"
                         /\ Convertible(CachedEntry(cache, r.hash).enr))
\* A channel after the records were offered to it one by one
Offered(buf, records) ==
    SubSeq(buf \o records, 1,
           IF Len(buf) + Len(records) < ChannelCapacity THEN Len(buf) + Len(records)
           ELSE IF Len(buf) < ChannelCapacity THEN ChannelCapacity ELSE Len(buf))

\* What one notify(record) does to the subscribers: the closed ones are
\* gone, the others stay in their order; a full one keeps its contents, one
\* with room has the record appended
NotifyContract(before, record, after) ==
    /\ IdsOf(after) = IdsOf(OpenOf(before))
    /\ \A i \in DOMAIN after :
          /\ ~after[i].closed
          /\ after[i].buf = IF Len(OpenOf(before)[i].buf) >= ChannelCapacity
                            THEN OpenOf(before)[i].buf
                            ELSE Append(OpenOf(before)[i].buf, record)

\* C1: a notify(record) removes exactly the subscribers whose channel is
\* closed, keeps a full subscriber with its buffered contents unchanged,
\* appends the record to a subscriber with room, and leaves the order of the
\* retained subscribers unchanged.
C1_NotifyFanOut ==
    (LastIsLeaf /\ Convertible(last.entry.enr))
        => NotifyContract(last.pre.listeners, NodeRecordOf(last.entry.enr),
                          node_record_listeners)

\* a notify that met a closed subscriber followed by a full one
C1_Witness ==
    /\ LastIsLeaf /\ Convertible(last.entry.enr)
    /\ Len(last.pre.listeners) = 2
    /\ last.pre.listeners[1].closed
    /\ ~last.pre.listeners[2].closed
    /\ Len(last.pre.listeners[2].buf) = ChannelCapacity
    /\ Len(node_record_listeners) = 1

\* C2: with one subscriber that never reads and more convertible leaves
\* under a valid root than a channel holds, every leaf is resolved: the
\* event stream yields the Enr event of each leaf, the channel of the
\* subscriber never holds more than its capacity and the subscriber stays
\* registered, and in the end poll_next returns Pending with nothing left
\* to do.
C2_SlowSubscriber ==
    /\ \A e \in SlowLeaves : <>(ret.kind = "Ready" /\ ret.event = e)
    /\ [](\A i \in DOMAIN node_record_listeners :
             Len(node_record_listeners[i].buf) <= ChannelCapacity)
    /\ <>[](/\ ret.kind = "Pending"
            /\ queued_events = <<>> /\ pool_waiting = <<>> /\ pool_active = <<>>
            /\ Len(node_record_listeners) = 1
            /\ Len(node_record_listeners[1].buf) = ChannelCapacity)

\* a leaf resolved while the channel of the subscriber is full: its event
\* is buffered, the channel is as it was
C2_Witness ==
    /\ LastIsLeaf /\ last.entry.enr \in SlowLeaves
    /\ Len(last.pre.listeners) = 1
    /\ Len(last.pre.listeners[1].buf) = ChannelCapacity
    /\ node_record_listeners = last.pre.listeners
    /\ last.entry.enr \in Range(queued_events)
    /\ Cardinality({dns_record_cache[i].hash : i \in DOMAIN dns_record_cache}) = CacheLimit

\* C3: an ENR leaf resolved under kind Enr whose conversion succeeds causes
\* exactly one notify and exactly one Enr event appended to queued_events;
\* when the conversion fails neither the subscribers nor queued_events
\* change.  Trees and pool are untouched either way.
C3_LeafOnce ==
    LastIsLeaf =>
        /\ trees = last.pre.trees
        /\ pool_waiting = last.pre.waiting
        /\ IF Convertible(last.entry.enr)
           THEN /\ queued_events = Append(last.pre.events, last.entry.enr)
                /\ NotifyContract(last.pre.listeners, NodeRecordOf(last.entry.enr),
                                  node_record_listeners)
           ELSE /\ queued_events = last.pre.events
                /\ node_record_listeners = last.pre.listeners

\* the first leaf of a walk: one record in the subscriber's channel, one
\* event buffered
C3_Witness ==
    /\ LastIsLeaf /\ Convertible(last.entry.enr)
    /\ last.pre.events = <<>>
    /\ Len(node_record_listeners) = 1
    /\ node_record_listeners[1].buf = <<NodeRecordOf(last.entry.enr)>>
    /\ queued_events = <<last.entry.enr>>

\* C4: a resolved root R for link L leaves a tree for L: a new one with
\* root R when L had none, the existing one after update_root(R) otherwise;
\* no other tree changes.  As long as no entry was resolved, no event is
\* buffered or returned and no subscriber holds a record.
C4_RootUpsert ==
    /\ (last.op = "root" /\ last.ok) =>
          /\ DOMAIN trees = (DOMAIN last.pre.trees) \cup {last.link}
          /\ \A l \in (DOMAIN trees) \ {last.link} : trees[l] = last.pre.trees[l]
          /\ IF last.link \in DOMAIN last.pre.trees
             THEN trees[last.link] = update_root(last.pre.trees[last.link], last.root)
             ELSE /\ trees[last.link].root = last.root
                  /\ trees[last.link] = SyncTreeNew(last.root)
    /\ dns_record_cache = <<>> =>
          /\ queued_events = <<>>
          /\ ret.kind # "Ready"
          /\ \A i \in DOMAIN node_record_listeners : node_record_listeners[i].buf = <<>>

\* the first root of a link, with a subscriber waiting
C4_Witness ==
    /\ last.op = "root" /\ last.ok
    /\ last.link \notin DOMAIN last.pre.trees
    /\ trees[last.link].root = last.root
    /\ dns_record_cache = <<>>
    /\ node_record_listeners # <<>>

\* C5: the set of links with a tree only grows; a tree for L appears only
\* in the step that handles a successful root resolution for L; a failed
\* root lookup leaves every tree as it was.
C5_TreesOnlyGrow ==
    [][/\ DOMAIN trees \subseteq DOMAIN trees'
       /\ \A l \in (DOMAIN trees') \ (DOMAIN trees) :
             last'.op = "root" /\ last'.ok /\ last'.link = l
       /\ (last'.op = "root" /\ ~last'.ok) => trees' = trees]_vars

\* a failed root refresh of a link that has a tree
C5_Witness ==
    /\ last.op = "root" /\ ~last.ok
    /\ last.link \in DOMAIN trees

\* A root lookup for the link waits in the pool or is in flight
RootLookupPending(l) == RootQuery(l) \in (Range(pool_waiting) \cup Range(pool_active))

\* C6: after a root lookup for link L fails, the recheck timer issues a new
\* root lookup for L on schedule, also when it was the very first lookup
\* for L: when the failure has been handled, either L has a tree (whose
\* poll emits UpdateRoot once recheck_interval has elapsed) or a root lookup
\* for L is already queued.
C6_FailedRootRetried ==
    (last.op = "root" /\ ~last.ok)
        => (last.link \in DOMAIN trees \/ RootLookupPending(last.link))

\* C7: a tree whose ENR-root hash was fetched and had no record fetches
\* that hash again when its root is refreshed after recheck_interval and
\* comes back unchanged: after the refresh the hash is unresolved again.
C7_UnchangedRootRefetched ==
    (/\ LastIsRefresh
     /\ last.root = last.pre.trees[last.link].root
     /\ last.pre.cache = <<>>
     /\ last.root.eroot \in last.pre.trees[last.link].seen
     /\ \A k \in Kinds :
           EntryQuery(last.link, last.root.eroot, k)
               \notin (Range(pool_waiting) \cup Range(pool_active)))
        => last.root.eroot \in trees[last.link].unresolved_enr

\* A tree whose recheck_interval has elapsed
RecheckDue(l) == now - trees[l].last_root_fetch >= RecheckInterval

\* C8: the recheck timer of a tree is a suspension point: when poll_next
\* has returned Pending and the recheck_interval of a tree has elapsed, a
\* wake-up of the service is scheduled.
C8_RecheckWakes ==
    (pc = "idle" /\ ret.kind = "Pending" /\ \E l \in DOMAIN trees : RecheckDue(l))
        => WakeScheduled

C12_CacheHit ==
    LastIsIter =>
        LET hits == HitLeaves(last.pre.cache, last.resolves)
            misses == Misses(last.pre.cache, last.resolves)
            records == [i \in DOMAIN hits |->
                           NodeRecordOf(CachedEntry(last.pre.cache, hits[i].hash).enr)]
        IN /\ SelectSeq(Appended, LAMBDA q : q.q = "entry")
                 = [i \in DOMAIN misses |->
                       EntryQuery(misses[i].link, misses[i].hash, misses[i].kind)]
           /\ Yielded \o queued_events
                 = last.pre.events
                      \o [i \in DOMAIN hits |-> CachedEntry(last.pre.cache, hits[i].hash).enr]
           /\ CachedHashes(dns_record_cache) = CachedHashes(last.pre.cache)
           /\ IF hits = <<>>
              THEN node_record_listeners = last.pre.listeners
              ELSE /\ IdsOf(node_record_listeners) = IdsOf(OpenOf(last.pre.listeners))
                   /\ \A i \in DOMAIN node_record_listeners :
                         node_record_listeners[i].buf
                            = Offered(OpenOf(last.pre.listeners)[i].buf, records)

\* tree B asks for a leaf hash that tree A resolved before: the subscriber
\* gets the record, no query is enqueued for the hash
C12_Witness ==
    /\ LastIsIter
    /\ \E i \in DOMAIN last.resolves :
          /\ last.resolves[i].link = "B"
          /\ last.resolves[i].kind = "Enr"
          /\ last.resolves[i].hash \in CachedHashes(last.pre.cache)
          /\ CachedEntry(last.pre.cache, last.resolves[i].hash).type = "Node"
          /\ Convertible(CachedEntry(last.pre.cache, last.resolves[i].hash).enr)
          /\ \A j \in DOMAIN Appended : Appended[j].hash # last.resolves[i].hash
    /\ Len(node_record_listeners) = 1
    /\ Len(last.pre.listeners) = 1
    /\ Len(node_record_listeners[1].buf) = Len(last.pre.listeners[1].buf) + 1

\* An entry of a variant that the kind asked for does not take
Mismatch(entry, kind) ==
    \/ entry.type = "Root"
    \/ entry.type = "Link" /\ kind = "Enr"
    \/ entry.type = "Node" /\ kind = "Link"

\* C13: a parsed entry whose variant does not match the kind asked for (a
\* link under Enr, a leaf under Link, a root under either) goes into the
\* parse cache under the hash asked for and changes nothing else: trees,
\* pool, subscribers and events are as before and the loop goes on.  A
\* missing entry or a parse failure changes nothing at all.
C13_WrongKindDropped ==
    /\ (last.op = "entry" /\ Mismatch(last.entry, last.kind)) =>
          /\ Head(dns_record_cache) = [hash |-> last.hash, entry |-> last.entry]
          /\ CachedHashes(dns_record_cache) \subseteq CachedHashes(last.pre.cache) \cup {last.hash}
          /\ Len(dns_record_cache) = Cardinality(CachedHashes(dns_record_cache))
          /\ trees = last.pre.trees
          /\ pool_waiting = last.pre.waiting
          /\ node_record_listeners = last.pre.listeners
          /\ queued_events = last.pre.events
          /\ pc = "queries"
    /\ (last.op = "entry" /\ last.entry.type \in {"None", "Err"}) =>
          /\ Cur = last.pre
          /\ pc = "queries"

\* a convertible leaf served in the link subtree of a tree that has a
\* subscriber waiting
C13_Witness ==
    /\ last.op = "entry"
    /\ last.entry.type = "Node" /\ last.kind = "Link"
    /\ Convertible(last.entry.enr)
    /\ last.link \in DOMAIN trees
    /\ \E i \in DOMAIN node_record_listeners : ~node_record_listeners[i].closed
    /\ CachedEntry(dns_record_cache, last.hash) = last.entry

\* The lookups started within the last second
RECURSIVE SumSeq(_)
SumSeq(q) == IF q = <<>> THEN 0 ELSE Head(q) + SumSeq(Tail(q))
StartedInWindow == SumSeq(started)

\* C14: in every sliding one-second window the pool starts at most
\* max_requests_per_sec (+1 for jitter) lookups, root and entry lookups
\* counted together, whatever the sequence of resolve calls and refills,
\* a burst that meets a full bucket included.
C14_RateLimit == StartedInWindow <= BurstRate + 1

\* How often a query is in a list of queries
CountOf(q, queries) == Cardinality({i \in DOMAIN queries : queries[i] = q})
\* The query whose outcome the last step handled
LastQuery == [q |-> last.op, link |-> last.link, hash |-> last.hash, kind |-> last.kind]
LastFailed ==
    \/ last.op = "root" /\ ~last.ok
    \/ last.op = "entry" /\ last.entry.type \in {"None", "Err"}

\* C15: every query enqueued in the pool yields exactly one outcome: a
\* query leaves the pool only in the step that hands its outcome to
\* on_resolved_root or on_resolved_entry, that step takes exactly this one
\* query out and frees its slot, a failed or timed-out lookup is not put
\* back by the pool, and the pool is empty again and again (no query stays
\* in it for ever).
C15_EveryQueryAnswered ==
    /\ [][LET before == pool_waiting \o pool_active
              after == pool_waiting' \o pool_active'
          IN IF last'.op \in {"root", "entry"}
             THEN /\ CountOf(LastQuery', before) >= 1
                  /\ \A x \in Range(before) :
                        CountOf(x, after) >= CountOf(x, before) - (IF x = LastQuery' THEN 1 ELSE 0)
                  /\ Len(pool_active')
                        = Len(pool_active) + (Len(pool_waiting) - Len(last'.pre.waiting)) - 1
                  /\ LastFailed' => Len(after) = Len(before) - 1
             ELSE \A x \in Range(before) : CountOf(x, after) >= CountOf(x, before)]_vars
    /\ []<>(pool_waiting = <<>> /\ pool_active = <<>>)

\* an entry lookup that timed out or found nothing has been handled: its
\* slot is free while other lookups are still in flight
C15_Witness ==
    /\ last.op = "entry" /\ LastFailed
    /\ pool_active # <<>>
    /\ LastQuery \notin Range(pool_active) \cup Range(pool_waiting)

\* The hashes a tree has not asked for yet, as the resolves they become
UnresolvedOf(ts) ==
    UNION {{[link |-> l, hash |-> h, kind |-> "Link"] : h \in ts[l].unresolved_link}
              \cup {[link |-> l, hash |-> h, kind |-> "Enr"] : h \in ts[l].unresolved_enr}
           : l \in DOMAIN ts}

\* C16 as claimed: when a loop iteration finds a tree with an unresolved
\* hash and the pool has a free token, at least one query is dispatched
\* to the pool within that iteration, whatever the parse cache holds.
C16_PollProgress ==
    (LastIsIter /\ UnresolvedOf(last.pre.trees) # {} /\ tokens > 0)
        => Appended # <<>>

\* C16, amended: when a loop iteration finds a tree with an unresolved hash
\* and the pool has a free token, every unresolved hash is taken from its
\* tree in that iteration; a query is dispatched to the pool for each one
\* that is not in the parse cache, and one that is cached is handled at
\* once without a query.  At least one query is dispatched unless every
\* hash taken is cached.
C16_PollProgressOrCached ==
    (LastIsIter /\ UnresolvedOf(last.pre.trees) # {} /\ tokens > 0) =>
        /\ UnresolvedOf(last.pre.trees) \subseteq Range(last.resolves)
        /\ \A r \in Range(Misses(last.pre.cache, last.resolves)) :
              EntryQuery(r.link, r.hash, r.kind) \in Range(Appended)
        /\ \A r \in Range(Hits(last.pre.cache, last.resolves)) :
              EntryQuery(r.link, r.hash, r.kind) \notin Range(Appended)
        /\ Appended # <<>> \/ Misses(last.pre.cache, last.resolves) = <<>>

\* an iteration that takes a cached and an uncached hash from the trees
C16_Witness ==
    /\ LastIsIter /\ UnresolvedOf(last.pre.trees) # {} /\ tokens > 0
    /\ Hits(last.pre.cache, last.resolves) # <<>>
    /\ Misses(last.pre.cache, last.resolves) # <<>>
    /\ Appended # <<>>

\* The leaves the last iteration delivered from the cache
Delivered == Len(Yielded \o queued_events) - Len(last.pre.events)

\* C17: a leaf record is delivered only for a hash that was asked for as
\* part of the ENR subtree of the requesting tree's link: the hash is the
\* eroot of a root resolved for that link or is listed, through a chain of
\* resolved branch entries, below such an eroot.  This holds for leaves
\* that come from the pool and for leaves served by the cache.
C17_LeafReachable ==
    /\ (last.op = "entry" /\ (queued_events # last.pre.events
                              \/ node_record_listeners # last.pre.listeners))
          => /\ last.kind = "Enr"
             /\ last.hash \in walked[last.link]
    /\ LastIsIter
          => Delivered <= Cardinality({i \in DOMAIN last.resolves :
                                /\ last.resolves[i].kind = "Enr"
                                /\ last.resolves[i].hash \in walked[last.resolves[i].link]
                                /\ last.resolves[i].hash \in CachedHashes(last.pre.cache)})

\* a subscriber gets the record of a leaf that is not the eroot itself but
\* is listed by a resolved branch below it
C17_Witness ==
    /\ LastIsLeaf /\ Convertible(last.entry.enr)
    /\ last.link \in DOMAIN trees
    /\ last.hash # trees[last.link].root.eroot
    /\ last.hash \in walked[last.link]
    /\ Len(node_record_listeners) = 1
    /\ Len(last.pre.listeners) = 1
    /\ Len(node_record_listeners[1].buf) = Len(last.pre.listeners[1].buf) + 1

\* The commands of one kind in the inbox
CommandsOf(kind) == SelectSeq(command_rx, LAMBDA c : c.cmd = kind)
\* The last step handled a failure: a failed or timed-out lookup, a missing
\* or unparsable entry, an entry of the wrong kind, an ENR that does not
\* convert
LastWentWrong ==
    \/ LastFailed
    \/ last.op = "entry" /\ Mismatch(last.entry, last.kind)
    \/ LastIsLeaf /\ ~Convertible(last.entry.enr)

\* C18: the service never fails as a whole.  poll_next returns Pending or
\* Ready(Some(event)) and nothing else; a call that finds no buffered event
\* handles every command of the inbox, also the ones behind a subscription
\* whose reply sink was dropped (a root query for each SyncTree, a channel
\* for each NodeRecordUpdates); and after a failed outcome the loop is still
\* in its query phase, where the next outcome is handled.
C18_NeverFails ==
    [][/\ ret'.kind \in {"none", "Pending", "Ready"}
       /\ ret'.kind = "Ready" => ret'.event \in Enrs
       /\ (pc = "idle" /\ pc' = "idle" /\ ret' # ret) =>
             /\ queued_events # <<>>
             /\ ret' = [kind |-> "Ready", event |-> Head(queued_events)]
             /\ queued_events' = Tail(queued_events)
       /\ (pc = "idle" /\ pc' = "queries") =>
             /\ command_rx' = <<>>
             /\ Len(pool_waiting') = Len(pool_waiting) + Len(CommandsOf("SyncTree"))
             /\ \A i \in DOMAIN command_rx :
                   command_rx[i].cmd = "SyncTree" =>
                       RootQuery(command_rx[i].link) \in Range(pool_waiting')
             /\ Len(node_record_listeners')
                    = Len(node_record_listeners) + Len(CommandsOf("NodeRecordUpdates"))
       /\ LastWentWrong' =>
             /\ pc' = "queries"
             /\ ret' = ret
             /\ command_rx' = command_rx
      ]_vars

\* an outcome that failed was handled while the pool still holds a query;
\* the service has a listener whose reply sink was dropped and the tree that
\* a command behind that subscription asked for
C18_Witness ==
    /\ LastWentWrong
    /\ pc = "queries"
    /\ pool_waiting \o pool_active # <<>>
    /\ \E i \in DOMAIN node_record_listeners : node_record_listeners[i].closed
    /\ trees # EmptyMap

\* s is what is left of q after queries were taken from its head, followed
\* by zero or more new queries
KeepsOrder(q, s) ==
    \E k \in 0 .. Len(q) :
        /\ Len(s) >= Len(q) - k
        /\ SubSeq(s, 1, Len(q) - k) = SubSeq(q, k + 1, Len(q))
\* The root queries of the links of pending_updates
RootQueries(updates) == [i \in DOMAIN updates |-> RootQuery(updates[i])]

\* C19: the root refresh that a tree emits in one iteration is in the pool
\* when that iteration ends, behind everything that was submitted before and
\* so ahead of every entry resolve of a later iteration: the iteration
\* appends the root queries of all its updates at the tail of the pool's
\* queue, and the queue only loses queries at its head and gains them at
\* its tail.
C19_RefreshBeforeLaterResolves ==
    [][/\ KeepsOrder(pool_waiting, pool_waiting')
       /\ LastIsIter' =>
             /\ Len(pool_waiting') >= Len(last'.pre.waiting) + Len(last'.updates)
             /\ SubSeq(pool_waiting', 1, Len(last'.pre.waiting)) = last'.pre.waiting
             /\ SubSeq(pool_waiting', Len(pool_waiting') - Len(last'.updates) + 1,
                       Len(pool_waiting')) = RootQueries(last'.updates)
      ]_vars

\* the only tree is the one of the boot link, two roots were resolved for it
\* (the second by the root refresh that an earlier iteration emitted and
\* submitted, there being one SyncTree command), and a later iteration
\* submits an entry resolve of the tree under the refreshed root
C19_Witness ==
    /\ LastIsIter
    /\ last.updates = <<>>
    /\ now >= RecheckInterval
    /\ DOMAIN last.pre.trees = BootLinks
    /\ \A l \in BootLinks :
          /\ last.pre.trees[l].root.seq = MaxSeq
          /\ last.pre.trees[l].last_root_fetch = now
          /\ Cardinality(walked[l]) > 1
          /\ \E i \in DOMAIN Appended : Appended[i] = EntryQuery(l, last.pre.trees[l].root.eroot, "Enr")

\* The tree of link l, as the last iteration found it, was due for a recheck
DueIn(ts, l) == l \in DOMAIN ts /\ now - ts[l].last_root_fetch >= RecheckInterval

\* C20: a tree emits UpdateRoot exactly once per recheck window.  Draining
\* the trees at one instant puts a link into pending_updates at most once,
\* exactly the links of the trees that were due (now - last_root_fetch >=
\* recheck_interval); such a tree has last_root_fetch = now afterwards and is
\* no longer due; and last_root_fetch of a tree never goes back, so the next
\* UpdateRoot of the tree is a full recheck_interval later.
C20_UpdateRootOncePerWindow ==
    [][/\ LastIsIter' =>
             /\ \A i, j \in DOMAIN last'.updates :
                   last'.updates[i] = last'.updates[j] => i = j
             /\ Range(last'.updates) = {l \in DOMAIN last'.pre.trees : now' - last'.pre.trees[l].last_root_fetch >= RecheckInterval}
             /\ \A l \in Range(last'.updates) :
                   /\ l \in DOMAIN trees'
                   /\ trees'[l].last_root_fetch = now'
             /\ \A l \in DOMAIN trees' : now' - trees'[l].last_root_fetch < RecheckInterval
       /\ \A l \in DOMAIN trees :
             /\ l \in DOMAIN trees'
             /\ trees'[l].last_root_fetch >= trees[l].last_root_fetch
      ]_vars

\* two trees were due at the same instant and each emitted one UpdateRoot
C20_Witness ==
    /\ LastIsIter
    /\ Len(last.updates) = 2
    /\ \A l \in Range(last.updates) :
          /\ DueIn(last.pre.trees, l)
          /\ trees[l].last_root_fetch = now

\* The hashes that the last iteration took from the tree of l under a kind
TakenOf(l, kind) ==
    {last.resolves[i].hash : i \in {j \in DOMAIN last.resolves :
                                       /\ last.resolves[j].link = l
                                       /\ last.resolves[j].kind = kind}}

\* C21: the poll of a tree walks the link subtree first.  Polled when no
\* recheck is due, a tree returns Enr(hash) only with unresolved_link empty,
\* Link(hash) with a hash of unresolved_link, either with the hash removed
\* from its set, and None exactly when both sets are empty; drained by one
\* iteration, a tree hands out all its pending link hashes as Link before
\* all its pending ENR hashes as Enr, each once.
C21_LinksBeforeEnrs ==
    /\ \A l \in DOMAIN trees :
          LET t == trees[l]
              p == tree_poll(t, now, RecheckInterval)
          IN now - t.last_root_fetch < RecheckInterval =>
                /\ p.action.act \in {"Link", "Enr", "None"}
                /\ p.action.act = "Enr" =>
                      /\ t.unresolved_link = {}
                      /\ p.action.hash \in t.unresolved_enr
                      /\ p.tree.unresolved_enr = t.unresolved_enr \ {p.action.hash}
                      /\ p.tree.unresolved_link = {}
                /\ p.action.act = "Link" =>
                      /\ p.action.hash \in t.unresolved_link
                      /\ p.tree.unresolved_link = t.unresolved_link \ {p.action.hash}
                      /\ p.tree.unresolved_enr = t.unresolved_enr
                /\ p.action.act = "None" <=> (t.unresolved_link = {} /\ t.unresolved_enr = {})
    /\ LastIsIter =>
          /\ \A l \in DOMAIN last.pre.trees :
                /\ TakenOf(l, "Link") = last.pre.trees[l].unresolved_link
                /\ TakenOf(l, "Enr") = last.pre.trees[l].unresolved_enr
          /\ \A i, j \in DOMAIN last.resolves :
                /\ (i < j /\ last.resolves[i].link = last.resolves[j].link)
                      => ~(last.resolves[i].kind = "Enr" /\ last.resolves[j].kind = "Link")
                /\ last.resolves[i] = last.resolves[j] => i = j
          /\ \A i \in DOMAIN last.resolves : last.resolves[i].link \in DOMAIN last.pre.trees

\* an iteration drained a tree that had a pending link hash and a pending
\* ENR hash
C21_Witness ==
    /\ LastIsIter
    /\ \E l \in DOMAIN last.pre.trees :
          /\ last.pre.trees[l].unresolved_link # {}
          /\ last.pre.trees[l].unresolved_enr # {}
          /\ TakenOf(l, "Link") # {}
          /\ TakenOf(l, "Enr") # {}

\* The pool holds no query
PoolEmpty == pool_waiting = <<>> /\ pool_active = <<>>

\* No hash waits in a tree that the tree has emitted in this epoch or that
\* is a resolved link of it
UnresolvedUnseen ==
    \A l \in DOMAIN trees :
        /\ trees[l].unresolved_link \cap trees[l].seen = {}
        /\ trees[l].unresolved_enr \cap trees[l].seen = {}
        /\ trees[l].unresolved_link \cap DOMAIN trees[l].resolved_links = {}
\* The seen-set of a tree only grows while its root stays
SeenGrows ==
    \A l \in DOMAIN trees :
        (l \in DOMAIN trees' /\ trees'[l].root = trees[l].root)
            => trees[l].seen \subseteq trees'[l].seen
\* The service has come to rest
AtRest == PoolEmpty /\ (pc = "idle" => ret.kind = "Pending")

ServiceStep == pc' # pc \/ ret' # ret \/ queued_events' # queued_events \/ last'.op # "none"

\* C23: buffered events are drained first.  A call of poll_next that finds
\* queued_events non-empty returns Ready with the oldest event, takes
\* exactly that event out of the buffer, and leaves the command inbox, the
\* query pool, the trees, the parse cache and the subscriber list as they
\* are; the buffer is a FIFO (events leave at its head, one per return, as
\* the event returned, and enter at its tail).
C23_BufferedFirst ==
    [][/\ (pc = "idle" /\ queued_events # <<>> /\ ServiceStep) =>
             /\ ret' = [kind |-> "Ready", event |-> Head(queued_events)]
             /\ queued_events' = Tail(queued_events)
             /\ pc' = "idle"
             /\ UNCHANGED <<command_rx, pool_waiting, pool_active, tokens, trees,
                            dns_record_cache, node_record_listeners>>
       /\ KeepsOrder(queued_events, queued_events')
       /\ \/ Len(queued_events') >= Len(queued_events)
          \/ /\ Len(queued_events') = Len(queued_events) - 1
             /\ queued_events' = Tail(queued_events)
             /\ ret' = [kind |-> "Ready", event |-> Head(queued_events)]
             /\ pc' = "idle"
       /\ (pc' = "idle" /\ ret'.kind = "Ready" /\ last'.op = "iter"
                        /\ last'.pre.events # <<>>) =>
             ret'.event = Head(last'.pre.events)
      ]_vars

\* poll_next returned a buffered event while a command was waiting in the
\* inbox, and another event is still buffered
C23_Witness ==
    /\ pc = "idle"
    /\ ret.kind = "Ready"
    /\ last.op = "none"
    /\ queued_events # <<>>
    /\ command_rx # <<>>
    /\ trees # EmptyMap

\* poll_next has just returned Pending
ReturnedPending == last.op = "iter" /\ pc = "idle" /\ ret.kind = "Pending"

\* C24: poll_next returns Pending only in a quiescent state: no event is
\* buffered, the command inbox is empty, the pool has started every waiting
\* query it has a token for, no tree has an action to emit at the current
\* time (no recheck is due and nothing is unresolved), and the iteration
\* that returned left no resolve and no root refresh unsubmitted (it
\* collected none).
C24_PendingIsQuiescent ==
    ReturnedPending =>
        /\ queued_events = <<>>
        /\ command_rx = <<>>
        /\ pool_waiting = <<>> \/ tokens = 0
        /\ \A l \in DOMAIN trees :
              /\ tree_poll(trees[l], now, RecheckInterval).action = NoAction
              /\ now - trees[l].last_root_fetch < RecheckInterval
              /\ trees[l].unresolved_link = {}
              /\ trees[l].unresolved_enr = {}
        /\ last.resolves = <<>>
        /\ last.updates = <<>>
        /\ pool_waiting = last.pre.waiting
        /\ trees = last.pre.trees

\* poll_next returned Pending after a recheck interval has passed, with a
\* tree, a filled cache and a lookup still in flight
C24_Witness ==
    /\ ReturnedPending
    /\ trees # EmptyMap
    /\ now >= RecheckInterval
    /\ pool_active # <<>>
    /\ dns_record_cache # <<>>

\* The listeners that a drain of the inbox registers, in the order of the
\* commands
Registered ==
    [i \in DOMAIN CommandsOf("NodeRecordUpdates") |->
        [id |-> CommandsOf("NodeRecordUpdates")[i].id, buf |-> <<>>,
         closed |-> ~CommandsOf("NodeRecordUpdates")[i].replyOpen]]
\* The last step notified the listeners of a record
LastNotified ==
    \/ LastIsLeaf /\ Convertible(last.entry.enr)
    \/ LastIsIter /\ HitLeaves(last.pre.cache, last.resolves) # <<>>

\* C25: every NodeRecordUpdates command registers exactly one new
\* subscriber, with an empty channel of the configured capacity, at the end
\* of the list; the receive end goes to the reply sink, and when the
\* receiver of the reply sink is gone the receive end is dropped with the
\* reply, so that the channel is closed from the start.  The service goes
\* on, and the next notify removes the closed subscriber: after a notify no
\* closed subscriber is left in node_record_listeners.
C25_SubscriberRegistered ==
    /\ [][(pc = "idle" /\ pc' = "queries") =>
             node_record_listeners' = node_record_listeners \o Registered]_vars
    /\ [](\A i \in DOMAIN node_record_listeners :
             /\ Len(node_record_listeners[i].buf) <= ChannelCapacity
             /\ node_record_listeners[i].closed => node_record_listeners[i].buf = <<>>)
    /\ [](LastNotified =>
             /\ \A i \in DOMAIN node_record_listeners : ~node_record_listeners[i].closed
             /\ node_record_listeners
                    = [i \in DOMAIN SelectSeq(last.pre.listeners, LAMBDA x : ~x.closed) |->
                         [SelectSeq(last.pre.listeners, LAMBDA x : ~x.closed)[i]
                             EXCEPT !.buf = node_record_listeners[i].buf]])

\* a record was resolved after two subscriptions, one of them with a closed
\* channel; the notify removed that one and delivered to the other
C25_Witness ==
    /\ LastIsLeaf /\ Convertible(last.entry.enr)
    /\ Len(last.pre.listeners) = 2
    /\ last.pre.listeners[1].closed
    /\ ~last.pre.listeners[2].closed
    /\ Len(node_record_listeners) = 1
    /\ node_record_listeners[1].id = last.pre.listeners[2].id
    /\ node_record_listeners[1].buf = Append(last.pre.listeners[2].buf, NodeRecordOf(last.entry.enr))

\* The resolves of the last iteration that the cache served with a link
\* entry under kind Link
HitLinks ==
    SelectSeq(Hits(last.pre.cache, last.resolves),
              LAMBDA r : r.kind = "Link" /\ CachedEntry(last.pre.cache, r.hash).type = "Link")
\* The last step handled a link entry, under kind Link, that links to l
LinkResolvedTo(l) ==
    \/ /\ last.op = "entry" /\ last.kind = "Link"
       /\ last.entry.type = "Link" /\ last.entry.link = l
    \/ /\ LastIsIter
       /\ \E i \in DOMAIN HitLinks : CachedEntry(last.pre.cache, HitLinks[i].hash).link = l

Buffered ==
    IF last'.op \in {"entry", "iter"}
    THEN SubSeq(Yielded' \o queued_events', Len(queued_events) + 1,
                Len(Yielded' \o queued_events'))
    ELSE <<>>
RecordsOf(events) == [i \in DOMAIN events |-> NodeRecordOf(events[i])]
\* The subscriber with identity id in a list of subscribers
ListenerOf(ls, id) == ls[CHOOSE i \in DOMAIN ls : ls[i].id = id]

\* C27: what a subscriber receives is what the service buffers as events
\* after the subscriber was registered.  Step by step: a subscriber starts
\* with an empty channel (nothing is replayed); while it is registered and
\* open, its channel changes only by the subscriber taking the oldest
\* record and by the records of the events that a step buffers, which the
\* step appends in the order of the events, each once, as far as the
\* channel has room; a record that found the channel full is appended by no
\* later step.  The channel of a subscriber that is never full therefore
\* carries exactly the records of the events buffered since registration,
\* in their order.
C27_StreamIsEvents ==
    [][/\ \A j \in DOMAIN node_record_listeners' :
             node_record_listeners'[j].id \notin Range(IdsOf(node_record_listeners))
                 => node_record_listeners'[j].buf = <<>> /\ Buffered = <<>>
       /\ \A i \in DOMAIN node_record_listeners :
             LET l == node_record_listeners[i]
             IN ~l.closed =>
                   /\ l.id \in Range(IdsOf(node_record_listeners'))
                   /\ LET after == ListenerOf(node_record_listeners', l.id)
                      IN /\ ~after.closed
                         /\ \/ after.buf = Offered(l.buf, RecordsOf(Buffered))
                            \/ /\ Buffered = <<>> /\ last'.op = "none" /\ l.buf # <<>>
                               /\ after.buf = Tail(l.buf)
       /\ IdsOf(node_record_listeners)
             = SubSeq(IdsOf(node_record_listeners'), 1, Len(node_record_listeners))
      ]_vars

\* two subscribers, the second registered after the first leaf: the first
\* holds the records of two different leaves in the order of their events,
\* the second only the later one
C27_Witness ==
    /\ Len(node_record_listeners) = 2
    /\ Len(node_record_listeners[1].buf) = 2
    /\ node_record_listeners[1].buf[1] # node_record_listeners[1].buf[2]
    /\ node_record_listeners[2].buf = <<node_record_listeners[1].buf[2]>>
    /\ LastIsLeaf
    /\ last.pre.listeners[2].buf = <<>>

\* C28: in the Discovery stream no buffered event is stranded.  When
\* poll_next has returned Pending and queued_events is non-empty, the task
\* is scheduled to be polled again; every event that is queued is returned
\* later; and the events returned are the events queued, each once, in the
\* order in which they were queued, each after the listeners were told.
C28_NoStrandedEvent ==
    /\ []((discovery.ret = "Pending" /\ discovery.queued_events # <<>>) => discovery.woken)
    /\ \A id \in Nodes :
          (id \in Range(discovery.queued_events)) ~> (id \in Range(discovery.returned))
    /\ [](/\ discovery.returned = discovery.notified
          /\ \A i, j \in DOMAIN discovery.returned :
                discovery.returned[i] = discovery.returned[j] => i = j)

C10_RootAdvance ==
    (LastIsRefresh /\ last.root.seq > last.pre.trees[last.link].root.seq) =>
        LET new == trees[last.link]
        IN /\ new.root = last.root
           /\ new.resolved_links = EmptyMap
           /\ new.seen = {}
           /\ new.unresolved_link = {last.root.lroot}
           /\ new.unresolved_enr = {last.root.eroot}
           /\ new.last_root_fetch = now

\* a newer root for a tree that had resolved a link and walked hashes of
\* its old root
C10_Witness ==
    /\ LastIsRefresh
    /\ last.root.seq > last.pre.trees[last.link].root.seq
    /\ last.pre.trees[last.link].resolved_links # EmptyMap
    /\ last.pre.trees[last.link].root.eroot \in last.pre.trees[last.link].seen
    /\ last.pre.trees[last.link].root.eroot # last.root.eroot

=============================================================================
